---- MODULE Spec2Model ----
(***************************************************************************)
(* GHCNh preprocessing pipeline of pyseasters                              *)
(* (pyseasters/data_curation/preprocess/ghcnh.py): the two-step driver     *)
(* preprocess_ghcnh, its per-station Dask tasks, the deferred logging      *)
(* stack, and the files the driver reads and writes.                       *)
(***************************************************************************)
EXTENDS Integers, Sequences, FiniteSets, TLC

(* ------------------------------ bounds --------------------------------- *)
\* largest number of usable rows a variable has in one station-year
MaxCount == 2
\* number of calls of preprocess_ghcnh in one behaviour
MaxRuns == 3
\* number of changes of the input files between two calls
MaxEdits == 1
\* number of LoggingStack objects a client makes
MaxStacks == 1
\* number of records a client appends, over all its stacks
MaxRecords == 2

Stations == {1, 2}
Years == {1, 2}
\* keys of _VAR_TO_META, in the order of the dictionary
Vars == {1, 2}
Keys == Stations \X Years
\* values of the step argument: 1, 2, and one value that is neither
Steps == {1, 2, 3}

\* a cell of a column that can hold nulls: << >> is NaN, << x >> the value x
NaN == << >>
Value(x) == << x >>
\* the elevation value that stands for "unknown" in a psv file (-999.9)
MissingElevation == -999

(* ------------------------------ helpers -------------------------------- *)
Min(S) == CHOOSE x \in S : \A y \in S : x <= y

RECURSIVE SortedSeq(_)
\* ascending sequence of a finite set of integers
SortedSeq(S) == IF S = {} THEN << >>
                ELSE << Min(S) >> \o SortedSeq(S \ {Min(S)})

KeyLess(a, b) == a[1] < b[1] \/ (a[1] = b[1] /\ a[2] < b[2])

RECURSIVE SortedKeys(_)
\* ascending (station_id, year) sequence of a set of pairs: sort_index()
SortedKeys(S) ==
    IF S = {} THEN << >>
    ELSE LET m == CHOOSE x \in S : \A y \in S : x = y \/ KeyLess(x, y)
         IN  << m >> \o SortedKeys(S \ {m})

RECURSIVE Dedup(_)
\* drop_duplicates(): keep the first occurrence of every element
Dedup(s) ==
    IF s = << >> THEN << >>
    ELSE LET r == Dedup(SubSeq(s, 1, Len(s) - 1))
             x == s[Len(s)]
         IN  IF \E i \in 1..Len(r) : r[i] = x THEN r ELSE Append(r, x)

Range(s) == {s[i] : i \in 1..Len(s)}

RECURSIVE Concat(_)
\* concatenation of a sequence of sequences
Concat(ss) == IF ss = << >> THEN << >> ELSE Head(ss) \o Concat(Tail(ss))

ZeroCnt == [v \in Vars |-> 0]

(* --------------------------- LoggingStack ------------------------------ *)
\* LoggingStack(name=...): an empty stack
NewStack(name) == [name |-> name, messages |-> << >>]

\* LoggingStack._append(level, message, *args)
StackAppend(stack, level, message, args) ==
    [stack EXCEPT !.messages = Append(@, << level, message >> \o args)]

\* str.lower() on the method names the tasks use
Lower(name) ==
    CASE name = "DEBUG" -> "debug"
      [] name = "INFO" -> "info"
      [] name = "WARNING" -> "warning"
      [] name = "ERROR" -> "error"
      [] name = "CRITICAL" -> "critical"
      [] OTHER -> name

\* the names __getattr__ turns into a method
SeverityNames == {"debug", "info", "warning", "error", "critical"}

\* a __getattr__ that compares the name as it is written
AcceptedExact(attr) == attr \in SeverityNames

\* the test of __getattr__: name.lower() is one of the five names
Accepted(attr) == Lower(attr) \in SeverityNames

\* LoggingStack.picklable(): the (name, messages) tuple
Picklable(stack) == << stack.name, stack.messages >>

\* LoggingStack(args[0]): a stack with the name of the tuple and no record
ReconstructNameOnly(args) == NewStack(args[1])

\* LoggingStack(*args): rebuild a stack from its tuple
Reconstruct(args) == [name |-> args[1], messages |-> args[2]]

\* one call on the real logger made by flush: the method, the prefixed
\* template "[<name>] <message>" kept as the prefix << name >> and the
\* message, the args
Emitted(name, params) ==
    [level |-> Lower(params[1]),
     prefix |-> << name >>,
     msg |-> params[2],
     args |-> SubSeq(params, 3, Len(params))]

RECURSIVE FlushCallsLastFirst(_, _)
\* a flush that takes the records with pop(): the last one first
FlushCallsLastFirst(name, messages) ==
    IF messages = << >> THEN << >>
    ELSE << Emitted(name, messages[Len(messages)]) >>
             \o FlushCallsLastFirst(name, SubSeq(messages, 1, Len(messages) - 1))

RECURSIVE FlushCalls(_, _)
\* LoggingStack.flush(logger): the calls made on the logger, in order
FlushCalls(name, messages) ==
    IF messages = << >> THEN << >>
    ELSE << Emitted(name, Head(messages)) >> \o FlushCalls(name, Tail(messages))

\* a flush that reads the records and leaves them in the list
FlushKeeps(messages) == messages

\* what "while self.messages: self.messages.pop(0)" leaves in the list
FlushLeaves(messages) == << >>

\* a record the driver logs itself (log.info(...)): no prefix
OwnLog(level, msg) == [level |-> level, prefix |-> << >>, msg |-> msg, args |-> << >>]

(* ------------------------------ raw files ------------------------------ *)
\* What a by-year parquet file of one (station, year) can be:
\*   absent      the file does not exist
\*   corrupt     pd.read_parquet raises
\*   ok          DATE parses at the first attempt
\*   mixed       pd.to_datetime raises ValueError, format="mixed" parses
\*   unparsable  pd.to_datetime raises ValueError, format="mixed" raises too
\*   nodate      df["DATE"] raises an exception that is not a ValueError
\*   noidcols    one of the station columns to drop is missing
\* cols: the variables whose columns the file has; cnt: for each variable the
\* number of rows that dropna(how="all") keeps.
YKinds == {"absent", "corrupt", "ok", "mixed", "unparsable", "nodate", "noidcols"}

YFile(kind, cols, cnt) == [kind |-> kind, cols |-> cols, cnt |-> cnt]

\* What a by-station psv file can be:
\*   absent      the file does not exist
\*   badcsv      pd.read_csv with the dtype table raises
\*   badtime     building the time index raises
\*   noidcols    a station column (Station_ID, Latitude, ...) is missing
\*   ok
\* cnt[y][v]: rows of year y that dropna keeps for variable v; the file has a
\* row in year y iff some variable has one. meta: the station columns of its rows.
SKinds == {"absent", "badcsv", "badtime", "noidcols", "ok"}

SFile(kind, cols, cnt, meta) == [kind |-> kind, cols |-> cols, cnt |-> cnt, meta |-> meta]

\* the five station columns of a psv row
MetaRow(sid, elev) ==
    [station_id |-> sid, lat |-> 10 + sid, lon |-> 20 + sid,
     elevation |-> elev, station_name |-> 30 + sid]

NoMetadata == [none |-> TRUE]

(* --------------------------- _export_variables ------------------------- *)
\* paths.ghcnh_file(station_id, year, var): the key of a partition file
GhcnhFile(sid, year, var) == << sid, year, var >>

\* the first variable at which the loop of _export_variables raises: its
\* columns are missing (df[cols]) or to_parquet finds no folder; 0 if none
ExportFailsAt(cols, cnt, year, folders) ==
    LET bad == {v \in Vars : v \notin cols \/ (cnt[v] > 0 /\ << v, year >> \notin folders)}
    IN  IF bad = {} THEN 0 ELSE Min(bad)

\* _export_variables(df, station_id, year, logger)
\* raised: an exception left the function; written: the partitions written
\* before that, as (var, rows) pairs; counts: var_to_count, zeros included
ExportVariables(cols, cnt, sid, year, logger, folders) ==
    LET b == ExportFailsAt(cols, cnt, year, folders)
        done == IF b = 0 THEN Vars ELSE {v \in Vars : v < b}
    IN  [raised |-> b # 0,
         written |-> {<< v, cnt[v] >> : v \in {w \in done : cnt[w] # 0}},
         counts |-> IF b = 0 THEN cnt ELSE ZeroCnt,
         logger |-> IF b = 0
                    THEN StackAppend(logger, "debug", "Variable export completed", << sid, year >>)
                    ELSE logger]

\* the two records every aborted station-year of a parquet task ends with
AbortParquetYear(logger, what, sid, year) ==
    StackAppend(StackAppend(logger, "error", what, << sid, year >>),
                "error", "Abort parquet preprocessing", << sid, year >>)

\* a station-year preprocessing without the file existence check:
\* pd.read_parquet raises
PreprocessSingleParquetStationYearNoCheck(file, sid, year, logger, folders) ==
    [raised |-> TRUE, empty |-> TRUE, written |-> {},
     counts |-> ZeroCnt, logger |-> logger]

\* _preprocess_single_parquet_station_year(station_id, year, logger)
\* raised: an exception left the function; empty: it returned {}
PreprocessSingleParquetStationYear(file, sid, year, logger, folders) ==
    LET exp == ExportVariables(file.cols, file.cnt, sid, year, logger, folders)
        nothing(lg) == [raised |-> FALSE, empty |-> TRUE, written |-> {},
                        counts |-> ZeroCnt, logger |-> lg]
        raise == [raised |-> TRUE, empty |-> TRUE, written |-> {},
                  counts |-> ZeroCnt, logger |-> logger]
    IN  CASE file.kind = "absent" ->
               nothing(AbortParquetYear(logger, "File not found", sid, year))
          [] file.kind = "corrupt" -> raise
          [] file.kind = "unparsable" -> raise
          [] file.kind = "nodate" ->
               nothing(AbortParquetYear(logger, "Problem while parsing datetime", sid, year))
          [] file.kind = "noidcols" ->
               nothing(AbortParquetYear(logger, "Problem while cleaning columns", sid, year))
          [] OTHER ->
               IF exp.raised
               THEN [raised |-> FALSE, empty |-> TRUE, written |-> exp.written,
                     counts |-> ZeroCnt,
                     logger |-> AbortParquetYear(exp.logger,
                                    "Problem while exporting variables", sid, year)]
               ELSE [raised |-> FALSE, empty |-> FALSE, written |-> exp.written,
                     counts |-> exp.counts, logger |-> exp.logger]

\* the loop "for var, count in var_to_count.items(): if count != 0: ..." :
\* the (var, year, count) entries a station-year adds to inv_by_var
FoldCounts(counts, year) ==
    LET nz == SortedSeq({v \in Vars : counts[v] # 0})
    IN  [i \in 1..Len(nz) |-> << nz[i], year, counts[nz[i]] >>]

(* -------------------------------- state -------------------------------- *)
VARIABLES
    station_year,      \* index of ghcnh-inventory.parquet: set of (station_id, year)
    missing_by_year,   \* ghcnh_station-year_missing_by-year.parquet: set of (station_id, year)
    by_year,           \* data/by-year/<year>/GHCNh_<id>_<year>.parquet, per (station_id, year)
    by_station,        \* data/by-station/GHCNh_<id>_por.psv, per station_id
    station_list,      \* ghcnh-station-list.parquet: sequence of rows
    inventory,         \* ghcnh-inventory-<var>.parquet, per var
    partitions,        \* data/<var>/<year>/GHCNh_<id>_<year>-<var>.parquet
    folders,           \* data/<var>/<year> directories that exist
    pc,                \* where the call is: "idle" (no call), "compute", "collected", "finished"
    step,              \* the step argument of the call in progress
    tasks,             \* the delayed tasks of the call, in the order they were built
    pool,              \* the Dask cluster of the call: "none", "running", "closed"
    log,               \* calls made on the module logger during the call, in order
    outcome,           \* how the last call ended: "none", "returned", or the exception raised
    runs,              \* calls made so far
    edits,             \* input changes made so far
    year_pass,         \* whether the previous call was a step 1 that returned, the
                       \* (var, key, count) entries it folded, and whether the
                       \* input files are still what they were when it ended
    stacks,            \* the LoggingStack objects a client made: name, and the
                       \* list object that is their messages attribute
    lists,             \* the list objects: the records each holds
    calls,             \* the calls made on the real logger, in order
    last_op,           \* the last operation on a LoggingStack and how it ended
    put,               \* per list object, the (level, message, args) it was given
    sent,              \* per list object, the calls a flush made from it
    checked_tools,     \* _checked_tools of pyseasters.utils._dependencies
    on_path,           \* the tools shutil.which finds in PATH
    last_call,         \* the last call of a function decorated with require_tools
    buffer,            \* what the last _preprocess_single_station task returned
    exists,            \* the paths that exist in the file system
    paths,             \* the PathConfig object: its fields, and whether it was made
    path_op            \* the last operation on the PathConfig and how it ended

inputs == << station_year, missing_by_year, by_year, by_station >>
outputs == << station_list, inventory, partitions, folders >>
control == << pc, step, tasks, pool, log, outcome, runs, edits >>
history == << year_pass >>
stackvars == << stacks, lists, calls, last_op, put, sent >>
toolvars == << checked_tools, on_path, last_call, buffer >>
pathvars == << exists, paths, path_op >>
envvars == << toolvars, pathvars >>
vars == << station_year, missing_by_year, by_year, by_station,
           station_list, inventory, partitions, folders,
           pc, step, tasks, pool, log, outcome, runs, edits, year_pass,
           stacks, lists, calls, last_op, put, sent,
           checked_tools, on_path, last_call, buffer,
           exists, paths, path_op >>

NoOperation == [op |-> "none", stack |-> 0, attr |-> "", raised |-> "none", emitted |-> 0]
\* PathConfig._dummy_root
DummyRoot == "/dummy/root"
\* no PathConfig object made yet
NoPathConfig == [init_mode |-> "none", root |-> "", machine_to_root |-> {}, network_to_root |-> {}]
NoPathOp == [op |-> "none", arg |-> "", raised |-> "none"]
NoCall == [tools |-> << >>, looked |-> << >>, missing |-> << >>, outcome |-> "none"]
NoYearPass == [ran |-> FALSE, triples |-> {}, clean |-> FALSE]
NoPartition == [exists |-> FALSE, rows |-> 0, src |-> "none"]
NoInventory == [exists |-> FALSE, rows |-> << >>]
PKeys == Stations \X Years \X Vars

(* ---------------------------- building tasks --------------------------- *)
\* groupby("station_id")["year"].agg(list).to_dict() of a set of pairs:
\* the stations in ascending order, each with its years in file order
StationsOf(pairs) == SortedSeq({k[1] : k \in pairs})
YearsOf(pairs, sid) == SortedSeq({k[2] : k \in {p \in pairs : p[1] = sid}})

\* station_year_parquet: the station-years of the inventory that the merge
\* with the exception list marks "left_only"
StationYearParquet == station_year \ missing_by_year

\* a station_need_metadata that takes every station of the inventory,
\* listed or not
StationNeedMetadataAll == StationsOf(station_year)

\* station_need_metadata: stations of the inventory absent from the station list
StationNeedMetadata ==
    LET listed == {station_list[i].station_id : i \in 1..Len(station_list)}
        all == StationsOf(station_year)
    IN  SelectSeq(all, LAMBDA sid : sid \notin listed)

\* a station_psv built without drop_duplicates()
StationPsvConcat == StationNeedMetadata \o StationsOf(missing_by_year)

\* station_psv: the stations that need metadata followed by the stations of
\* the exception list, without duplicates
StationPsv == Dedup(StationNeedMetadata \o StationsOf(missing_by_year))

NewTask(kind, sid, years, return_metadata) ==
    [kind |-> kind, sid |-> sid, years |-> years,
     return_metadata |-> return_metadata,
     phase |-> IF kind = "psv" THEN "prelude" ELSE "years",
     done |-> 0,
     logger |-> NewStack(sid),
     inv |-> << >>,
     inv_none |-> FALSE,
     metadata |-> NoMetadata]

\* tasks_parquet
TasksParquet ==
    LET sids == StationsOf(StationYearParquet)
    IN  [i \in 1..Len(sids) |->
            NewTask("parquet", sids[i], YearsOf(StationYearParquet, sids[i]), FALSE)]

\* tasks_psv, from station_year_metadata_psv
TasksPsv ==
    LET sids == StationPsv
    IN  [i \in 1..Len(sids) |->
            NewTask("psv", sids[i], YearsOf(missing_by_year, sids[i]),
                    sids[i] \in Range(StationNeedMetadata))]

(* ------------------------------ the tasks ------------------------------ *)
TaskCompleted(logger, sid) ==
    StackAppend(logger, "info", "Task completed", << sid >>)

\* to_parquet that adds the rows to the file that is there
WritePartitionsAppend(parts, sid, year, written, src) ==
    [k \in PKeys |->
        IF k[1] = sid /\ k[2] = year /\ \E w \in written : w[1] = k[3]
        THEN [exists |-> TRUE,
              rows |-> parts[k].rows + (CHOOSE w \in written : w[1] = k[3])[2],
              src |-> src]
        ELSE parts[k]]

\* the partition files after a task wrote `written` for (sid, year):
\* to_parquet replaces the file
WritePartitions(parts, sid, year, written, src) ==
    [k \in PKeys |->
        IF k[1] = sid /\ k[2] = year /\ \E w \in written : w[1] = k[3]
        THEN [exists |-> TRUE,
              rows |-> (CHOOSE w \in written : w[1] = k[3])[2],
              src |-> src]
        ELSE parts[k]]

\* one turn of the loop of _preprocess_single_parquet_station, and its
\* return after the last year
ParquetYearStep(t, r) ==
    IF r.raised
    THEN [t EXCEPT !.phase = "raised"]
    ELSE LET year == t.years[t.done + 1]
             last == t.done + 1 = Len(t.years)
         IN  [t EXCEPT !.done = @ + 1,
                       !.inv = @ \o FoldCounts(r.counts, year),
                       !.logger = IF last THEN TaskCompleted(r.logger, t.sid) ELSE r.logger,
                       !.phase = IF last THEN "done" ELSE "years"]

\* an aborted psv task that records the abort alone
AbortPsvOneRecord(logger, what, sid) ==
    StackAppend(logger, "error", "Abort task", << sid >>)

\* the two records an aborted psv task ends with
AbortPsv(logger, what, sid) ==
    StackAppend(StackAppend(logger, "error", what, << sid >>),
                "error", "Abort task", << sid >>)

\* the metadata tuple read from the first row, the elevation kept as it is
RecordedMetadataRaw(meta) ==
    [none |-> FALSE,
     station_id |-> meta.station_id,
     lat |-> Value(meta.lat), lon |-> Value(meta.lon),
     elevation |-> Value(meta.elevation),
     station_name |-> Value(meta.station_name)]

\* the metadata tuple read from the first row, -999.9 replaced by NaN
RecordedMetadata(meta) ==
    [none |-> FALSE,
     station_id |-> meta.station_id,
     lat |-> Value(meta.lat), lon |-> Value(meta.lon),
     elevation |-> IF meta.elevation = MissingElevation THEN NaN ELSE Value(meta.elevation),
     station_name |-> Value(meta.station_name)]

\* df_my[df_my["Year"].isin(years)] has at least one row
HasRows(file, years) ==
    \E y \in Range(years) : \E v \in Vars : file.cnt[y][v] > 0

\* a psv task that returns (stack, inventory, metadata) with an inventory
\* that is an empty mapping instead of None
PsvAbortEmptyMapping(t, what) ==
    [t EXCEPT !.logger = AbortPsv(@, what, t.sid),
              !.inv_none = FALSE,
              !.metadata = NoMetadata,
              !.phase = "done"]

\* "return logger.picklable(), None, None" after the two error records
PsvAbort(t, what) ==
    [t EXCEPT !.logger = AbortPsv(@, what, t.sid),
              !.inv_none = TRUE,
              !.metadata = NoMetadata,
              !.phase = "done"]

\* _preprocess_single_psv_station up to the loop over the years
PsvPrelude(t, file) ==
    LET lg == IF t.return_metadata
              THEN StackAppend(t.logger, "debug", "Recorded metadata", << >>)
              ELSE t.logger
    IN  CASE file.kind = "absent" -> PsvAbort(t, "File not found")
          [] file.kind = "badcsv" -> PsvAbort(t, "Problem while parsing dtypes")
          [] file.kind = "badtime" -> PsvAbort(t, "Problem while parsing datetime")
          [] t.return_metadata /\ (file.kind = "noidcols" \/ ~HasRows(file, t.years)) ->
               PsvAbort(t, "Problem while recording metadata")
          [] file.kind = "noidcols" -> PsvAbort(t, "Problem while cleaning columns")
          [] OTHER ->
               [t EXCEPT !.metadata = IF t.return_metadata
                                      THEN RecordedMetadata(file.meta)
                                      ELSE NoMetadata,
                         !.logger = IF t.years = << >> THEN TaskCompleted(lg, t.sid) ELSE lg,
                         !.phase = IF t.years = << >> THEN "done" ELSE "years"]

\* one turn of the loop "for year in years" of _preprocess_single_psv_station,
\* and its return after the last year
PsvYearStep(t, exp) ==
    LET year == t.years[t.done + 1]
        last == t.done + 1 = Len(t.years)
        lg == IF exp.raised
              THEN StackAppend(StackAppend(exp.logger, "error",
                                   "Problem while exporting variables for year", << year >>),
                               "error", "Abort psv preprocessing", << t.sid, year >>)
              ELSE exp.logger
    IN  [t EXCEPT !.done = @ + 1,
                  !.inv = IF exp.raised THEN @ ELSE @ \o FoldCounts(exp.counts, year),
                  !.logger = IF last THEN TaskCompleted(lg, t.sid) ELSE lg,
                  !.phase = IF last THEN "done" ELSE "years"]

Running(t) == t.phase \in {"prelude", "years"}

\* the next part of task t: one turn of its loop over the years, or for a psv
\* task the code before the loop. task: the task after it; written: the
\* partitions of station-year (t.sid, year) it wrote, as (var, rows) pairs
TaskTurn(t) ==
    LET year == t.years[t.done + 1]
    IN  CASE t.kind = "parquet" ->
               LET r == PreprocessSingleParquetStationYear(
                            by_year[<< t.sid, year >>], t.sid, year, t.logger, folders)
               IN  [task |-> ParquetYearStep(t, r), year |-> year,
                    written |-> r.written, src |-> "parquet"]
          [] t.kind = "psv" /\ t.phase = "prelude" ->
               [task |-> PsvPrelude(t, by_station[t.sid]), year |-> 0,
                written |-> {}, src |-> "psv"]
          [] OTHER ->
               LET f == by_station[t.sid]
                   exp == ExportVariables(f.cols, f.cnt[year], t.sid, year, t.logger, folders)
               IN  [task |-> PsvYearStep(t, exp), year |-> year,
                    written |-> exp.written, src |-> "psv"]

\* a worker runs the next part of task i
TaskStep(i) ==
    /\ pc = "compute"
    /\ Running(tasks[i])
    /\ LET r == TaskTurn(tasks[i])
       IN  /\ tasks' = [tasks EXCEPT ![i] = r.task]
           /\ partitions' = WritePartitions(partitions, tasks[i].sid, r.year, r.written, r.src)
    /\ UNCHANGED << inputs, station_list, inventory, folders,
                    pc, step, pool, log, outcome, runs, edits, history, stackvars, envvars >>

\* the pool terminates the worker that runs task i (memory limit, crash)
\* and the scheduler runs the task again from the start on another worker
WorkerRestarted(i) ==
    /\ pc = "compute"
    /\ Running(tasks[i])
    /\ tasks[i] # NewTask(tasks[i].kind, tasks[i].sid, tasks[i].years, tasks[i].return_metadata)
    /\ tasks' = [tasks EXCEPT ![i] =
                    NewTask(@.kind, @.sid, @.years, @.return_metadata)]
    /\ UNCHANGED << inputs, outputs, pc, step, pool, log, outcome, runs, edits, history, stackvars, envvars >>

(* ------------------------------ the driver ----------------------------- *)
\* the folders data/<var>/<year> after "Prepare directories"
PrepareDirectories ==
    folders \cup {<< v, y >> : v \in Vars, y \in {k[2] : k \in station_year}}

\* preprocess_ghcnh(step, ...) from its first line to the tasks being built
\* and handed to the cluster. With no year in the inventory "del folder"
\* raises NameError before the cluster is created.
Start(st) ==
    /\ pc = "idle"
    /\ runs < MaxRuns
    /\ runs' = runs + 1
    /\ step' = st
    /\ IF station_year = {}
       THEN /\ outcome' = "NameError"
            /\ pc' = "finished"
            /\ pool' = "none"
            /\ tasks' = << >>
            /\ log' = << >>
            /\ UNCHANGED folders
       ELSE /\ outcome' = "none"
            /\ pc' = "compute"
            /\ pool' = "running"
            /\ tasks' = CASE st = 1 -> TasksParquet
                          [] st = 2 -> TasksPsv
                          [] OTHER -> << >>
            /\ log' = << OwnLog("info", "Prepared directories"),
                         OwnLog("info", "Dask cluster is running") >>
            /\ folders' = PrepareDirectories
    /\ UNCHANGED << inputs, station_list, inventory, partitions, edits, history, stackvars, envvars >>

ShutDown == Append(log, OwnLog("info", "Dask cluster has been properly shut down"))

\* compute(*tasks) raises what a task raised and the exception leaves
\* preprocess_ghcnh with no finally clause on its way
ComputeRaisesNoFinally ==
    /\ pc = "compute"
    /\ \E i \in 1..Len(tasks) : tasks[i].phase = "raised"
    /\ pc' = "finished"
    /\ outcome' = "Exception"
    /\ tasks' = << >>
    /\ UNCHANGED << inputs, outputs, step, pool, log, runs, edits, history, stackvars, envvars >>

\* compute(*tasks) raises what a task raised; the finally clause shuts the
\* cluster down and the exception leaves preprocess_ghcnh
ComputeRaises ==
    /\ pc = "compute"
    /\ \E i \in 1..Len(tasks) : tasks[i].phase = "raised"
    /\ pc' = "finished"
    /\ pool' = "closed"
    /\ outcome' = "Exception"
    /\ log' = ShutDown
    /\ tasks' = << >>
    /\ UNCHANGED << inputs, outputs, step, runs, edits, history, stackvars, envvars >>

\* the pool terminates the worker that runs task i and the scheduler gives
\* the task up: compute(*tasks) raises KilledWorker, the finally clause
\* shuts the cluster down and the exception leaves preprocess_ghcnh
WorkerKilled(i) ==
    /\ pc = "compute"
    /\ Running(tasks[i])
    /\ tasks' = << >>
    /\ pc' = "finished"
    /\ pool' = "closed"
    /\ outcome' = "KilledWorker"
    /\ log' = ShutDown
    /\ UNCHANGED << inputs, outputs, step, runs, edits, history, stackvars, envvars >>

\* a compute() that returns as soon as one task is done
ComputeReturnsEarly ==
    /\ pc = "compute"
    /\ \E i \in 1..Len(tasks) : tasks[i].phase = "done"
    /\ \A i \in 1..Len(tasks) : tasks[i].phase # "raised"
    /\ pool' = "closed"
    /\ log' = ShutDown
    /\ pc' = "collected"
    /\ UNCHANGED << inputs, outputs, step, tasks, outcome, runs, edits, history, stackvars, envvars >>

\* compute(*tasks) returns the results of all tasks; the finally clause shuts
\* the cluster down. With no task at all, unpacking zip(*results) raises.
ComputeReturns ==
    /\ pc = "compute"
    /\ \A i \in 1..Len(tasks) : tasks[i].phase = "done"
    /\ pool' = "closed"
    /\ log' = ShutDown
    /\ IF tasks = << >> /\ step \in {1, 2}
       THEN pc' = "finished" /\ outcome' = "ValueError"
       ELSE pc' = "collected" /\ UNCHANGED outcome
    /\ UNCHANGED << inputs, outputs, step, tasks, runs, edits, history, stackvars, envvars >>

\* a flush of the stacks from the last task to the first
FlushStacksLastFirst(ts) ==
    Concat([i \in 1..Len(ts) |->
               LET stack == Reconstruct(Picklable(ts[Len(ts) + 1 - i].logger))
               IN  FlushCalls(stack.name, stack.messages)])

\* "for args in stacked_messages: LoggingStack(*args).flush(logger=log)"
FlushStacks(ts) ==
    Concat([i \in 1..Len(ts) |->
               LET stack == Reconstruct(Picklable(ts[i].logger))
               IN  FlushCalls(stack.name, stack.messages)])

\* the rows of the metadata tuples that are not None
MetadataRows(ts) ==
    LET got == SelectSeq(ts, LAMBDA t : ~t.metadata.none)
    IN  [i \in 1..Len(got) |->
            [station_id |-> got[i].metadata.station_id,
             lat |-> got[i].metadata.lat,
             lon |-> got[i].metadata.lon,
             elevation |-> got[i].metadata.elevation,
             station_name |-> got[i].metadata.station_name]]

\* a station list that keeps every row it had
CompleteStationListKeepAll(ts) == station_list \o MetadataRows(ts)

\* the station list step 2 writes: the listed stations of the inventory,
\* then one row per metadata tuple that is not None
CompleteStationList(ts) ==
    LET scope == {k[1] : k \in station_year}
        kept == SelectSeq(station_list, LAMBDA row : row.station_id \in scope)
    IN  kept \o MetadataRows(ts)

\* the (var, (station_id, year), count) triples appended to inv_by_var, in
\* order; step 2 skips the results whose inventory is None
InvTriples(ts) ==
    Concat([i \in 1..Len(ts) |->
               IF ts[i].inv_none THEN << >>
               ELSE [j \in 1..Len(ts[i].inv) |->
                        << ts[i].inv[j][1], << ts[i].sid, ts[i].inv[j][2] >>, ts[i].inv[j][3] >>]])

\* the keys of inv_by_var, in insertion order
InvVars(triples) == Dedup([j \in 1..Len(triples) |-> triples[j][1]])

\* the DataFrame built from inv_by_var[var], indexed by (station_id, year)
InvFrame(triples, var) ==
    LET mine == {j \in 1..Len(triples) : triples[j][1] = var}
    IN  [k \in {triples[j][2] : j \in mine} |->
            triples[CHOOSE j \in mine : triples[j][2] = k][3]]

\* update.combine_first(existing): the rows of update win
CombineFirstUpdateWins(existing, update) ==
    [k \in DOMAIN existing \cup DOMAIN update |->
        IF k \in DOMAIN update THEN update[k] ELSE existing[k]]

\* existing.combine_first(update): the rows of existing, and the rows of
\* update whose key existing does not have
CombineFirst(existing, update) ==
    [k \in DOMAIN existing \cup DOMAIN update |->
        IF k \in DOMAIN existing THEN existing[k] ELSE update[k]]

\* step 1: every variable of inv_by_var gets a new inventory file
ExportInventories(inv, triples) ==
    [v \in Vars |->
        IF v \in Range(InvVars(triples))
        THEN [exists |-> TRUE, rows |-> InvFrame(triples, v)]
        ELSE inv[v]]

RECURSIVE UpdateInventories(_, _, _)
\* step 2: the variables of inv_by_var in order; pd.read_parquet raises at
\* the first one that has no inventory file yet
UpdateInventories(inv, triples, order) ==
    IF order = << >> THEN [raised |-> FALSE, inv |-> inv]
    ELSE LET v == Head(order)
         IN  IF ~inv[v].exists THEN [raised |-> TRUE, inv |-> inv]
             ELSE UpdateInventories(
                      [inv EXCEPT ![v].rows = CombineFirst(@, InvFrame(triples, v))],
                      triples, Tail(order))

\* preprocess_ghcnh after the finally clause: flush the stacks, write the
\* station list (step 2), write the per-variable inventories
PostProcess ==
    /\ pc = "collected"
    /\ pc' = "finished"
    /\ LET flushed == Append(log, OwnLog("info", "Logging statements are printed below"))
                          \o (IF step \in {1, 2} THEN FlushStacks(tasks) ELSE << >>)
           triples == InvTriples(tasks)
           upd == UpdateInventories(inventory, triples, InvVars(triples))
       IN  CASE step = 1 ->
                  /\ UNCHANGED station_list
                  /\ inventory' = ExportInventories(inventory, triples)
                  /\ outcome' = "returned"
                  /\ log' = flushed \o << OwnLog("info", "Exported per-variable inventories"),
                                          OwnLog("info", "GHCNh data preprocessing completed") >>
             [] step = 2 ->
                  /\ station_list' = CompleteStationList(tasks)
                  /\ inventory' = upd.inv
                  /\ outcome' = IF upd.raised THEN "FileNotFoundError" ELSE "returned"
                  /\ log' = Append(flushed, OwnLog("info", "Updated station metadata"))
                             \o (IF upd.raised THEN << >>
                                 ELSE << OwnLog("info", "Updated per-variable inventories"),
                                         OwnLog("info", "GHCNh data preprocessing completed") >>)
             [] OTHER ->
                  /\ UNCHANGED << station_list, inventory >>
                  /\ outcome' = "returned"
                  /\ log' = Append(flushed, OwnLog("info", "GHCNh data preprocessing completed"))
    /\ UNCHANGED << inputs, partitions, folders, step, tasks, pool, runs, edits, history, stackvars, envvars >>

\* preprocess_ghcnh has returned or raised; the command ends (sys.exit(main()))
\* and only the files remain
Exit ==
    /\ pc = "finished"
    /\ pc' = "idle"
    /\ step' = 0
    /\ tasks' = << >>
    /\ pool' = "none"
    /\ log' = << >>
    /\ outcome' = "none"
    /\ year_pass' = IF step = 1 /\ outcome = "returned"
                    THEN [ran |-> TRUE, triples |-> Range(InvTriples(tasks)), clean |-> TRUE]
                    ELSE NoYearPass
    /\ UNCHANGED << inputs, outputs, runs, edits, stackvars, envvars >>

(* ---------------------- the files before the first call ---------------- *)
\* rows per variable of the by-year file of (sid, year)
YearCnt(sid, year) == [v \in Vars |-> (sid + year + v) % (MaxCount + 1)]

\* rows per year and variable of the by-station file of sid: what the
\* by-year files have in year 1, other numbers in the later years
StationCnt(sid) ==
    [y \in Years |-> [v \in Vars |->
        IF y = 1 THEN YearCnt(sid, y)[v]
        ELSE (YearCnt(sid, y)[v] + 1) % (MaxCount + 1)]]

\* a row of ghcnh-station-list.parquet as preprocess_ghcnh_metadata writes it
ListRow(sid, elev) ==
    [station_id |-> sid, lat |-> Value(10 + sid), lon |-> Value(20 + sid),
     elevation |-> elev, station_name |-> Value(30 + sid)]

\* the station list before the first call: station 3, which has no
\* station-year, and station 1
StationListInit == << ListRow(3, NaN), ListRow(1, Value(5)) >>

\* the exception list before the first call: the station-years that have
\* no by-year file
MissingByYearInit == {<< 1, 1 >>, << 2, 2 >>}

Init ==
    /\ station_year = Keys
    /\ missing_by_year = MissingByYearInit
    /\ by_year = [k \in Keys |->
                     YFile(IF k \in MissingByYearInit THEN "absent" ELSE "ok",
                           Vars, YearCnt(k[1], k[2]))]
    /\ by_station = [s \in Stations |->
                        SFile("ok", Vars, StationCnt(s), MetaRow(s, IF s = 2 THEN MissingElevation ELSE 5))]
    /\ station_list = StationListInit
    /\ inventory = [v \in Vars |-> NoInventory]
    /\ partitions = [k \in PKeys |-> NoPartition]
    /\ folders = {}
    /\ pc = "idle"
    /\ step = 0
    /\ tasks = << >>
    /\ pool = "none"
    /\ log = << >>
    /\ outcome = "none"
    /\ runs = 0
    /\ edits = 0
    /\ year_pass = NoYearPass
    /\ stacks = << >>
    /\ lists = << >>
    /\ calls = << >>
    /\ last_op = NoOperation
    /\ put = << >>
    /\ sent = << >>
    /\ checked_tools = {}
    /\ on_path = {}
    /\ last_call = NoCall
    /\ buffer = << >>
    /\ exists = {"/data/a"}
    /\ paths = NoPathConfig
    /\ path_op = NoPathOp

(* ------------------- the files change between two calls ---------------- *)
Toggle(S, x) == IF x \in S THEN S \ {x} ELSE S \cup {x}

\* a by-year file replaced by one that differs in its kind, in the columns
\* it has, or in the rows of one variable
YFileChanges(f) ==
    {[f EXCEPT !.kind = k] : k \in YKinds \ {f.kind}}
    \cup {[f EXCEPT !.cols = Vars \ {v}, !.cnt[v] = 0] : v \in f.cols}
    \cup UNION {{[f EXCEPT !.cnt[v] = c] : c \in (0..MaxCount) \ {f.cnt[v]}} : v \in f.cols}

\* a by-station file replaced by one that differs in its kind, in the
\* columns it has, in the rows of one variable in one year, or in elevation
SFileChanges(f) ==
    {[f EXCEPT !.kind = k] : k \in SKinds \ {f.kind}}
    \cup {[f EXCEPT !.cols = Vars \ {v}, !.cnt = [y \in Years |-> [@[y] EXCEPT ![v] = 0]]] : v \in f.cols}
    \cup UNION {{[f EXCEPT !.cnt[yv[1]][yv[2]] = c] : c \in (0..MaxCount) \ {f.cnt[yv[1]][yv[2]]}} :
                   yv \in Years \X f.cols}
    \cup {[f EXCEPT !.meta.elevation = e] : e \in {MissingElevation, 5} \ {f.meta.elevation}}

\* between two calls somebody changes one of the files the driver reads
EditInputs ==
    /\ pc = "idle"
    /\ edits < MaxEdits
    /\ edits' = edits + 1
    /\ \/ \E k \in Keys :
            /\ missing_by_year' = Toggle(missing_by_year, k)
            /\ UNCHANGED << station_year, by_year, by_station >>
       \/ \E k \in Keys :
            /\ station_year' = Toggle(station_year, k)
            /\ UNCHANGED << missing_by_year, by_year, by_station >>
       \/ \E k \in Keys : \E f \in YFileChanges(by_year[k]) :
            /\ by_year' = [by_year EXCEPT ![k] = f]
            /\ UNCHANGED << station_year, missing_by_year, by_station >>
       \/ \E s \in Stations : \E f \in SFileChanges(by_station[s]) :
            /\ by_station' = [by_station EXCEPT ![s] = f]
            /\ UNCHANGED << station_year, missing_by_year, by_year >>
    /\ year_pass' = [year_pass EXCEPT !.clean = FALSE]
    /\ UNCHANGED << outputs, pc, step, tasks, pool, log, outcome, runs, stackvars, envvars >>

Next ==
    \/ \E st \in Steps : Start(st)
    \/ \E i \in 1..Len(tasks) : TaskStep(i)
    \/ \E i \in 1..Len(tasks) : WorkerRestarted(i)
    \/ \E i \in 1..Len(tasks) : WorkerKilled(i)
    \/ ComputeRaises
    \/ ComputeReturns
    \/ PostProcess
    \/ Exit
    \/ EditInputs

Spec == Init /\ [][Next]_vars

\* the exceptions that can leave preprocess_ghcnh
Raised == {"NameError", "ValueError", "Exception", "KilledWorker", "FileNotFoundError"}

TypeOK ==
    /\ pc \in {"idle", "compute", "collected", "finished"}
    /\ pool \in {"none", "running", "closed"}
    /\ outcome \in {"none", "returned"} \cup Raised
    /\ runs \in 0..MaxRuns

(* ------------------------- a LoggingStack in use ----------------------- *)
\* what a client calls on a stack, as (attribute name, message, args): the
\* five severity names, one of them also in capitals, and a name that is
\* no severity
Logged ==
    {<< "debug", "message %s", << "A" >> >>,
     << "info", "message %s", << "A" >> >>,
     << "warning", "message B", << >> >>,
     << "error", "message B", << >> >>,
     << "critical", "message %s", << "A" >> >>,
     << "WARNING", "message %s", << "A" >> >>,
     << "notalevel", "message B", << >> >>}

RECURSIVE TotalLen(_)
TotalLen(ss) == IF ss = << >> THEN 0 ELSE Len(Head(ss)) + TotalLen(Tail(ss))

\* stack s with its list object read: the name and the records
Deref(s) == [name |-> stacks[s].name, messages |-> lists[stacks[s].messages]]

\* the records given to list l that no flush has taken yet
Pending(l) == SubSeq(put[l], Len(sent[l]) + 1, Len(put[l]))

Operation(op, s, attr, raised, emitted) ==
    [op |-> op, stack |-> s, attr |-> attr, raised |-> raised, emitted |-> emitted]

\* LoggingStack(name): a new stack with a new, empty list
Construct(name) ==
    /\ Len(stacks) < MaxStacks
    /\ lists' = Append(lists, NewStack(name).messages)
    /\ stacks' = Append(stacks, [name |-> name, messages |-> Len(lists) + 1])
    /\ put' = Append(put, << >>)
    /\ sent' = Append(sent, << >>)
    /\ last_op' = Operation("construct", Len(stacks) + 1, "", "none", 0)
    /\ UNCHANGED << calls, inputs, outputs, control, history, envvars >>

\* stack.<attr>(message, *args)
GetAttr(s, attr, message, args) ==
    /\ Accepted(attr) => TotalLen(put) < MaxRecords
    /\ LET l == stacks[s].messages
       IN  IF Accepted(attr)
           THEN /\ lists' = [lists EXCEPT ![l] = StackAppend(Deref(s), attr, message, args).messages]
                /\ put' = [put EXCEPT ![l] = Append(@, [level |-> attr, message |-> message, args |-> args])]
                /\ last_op' = Operation("call", s, attr, "none", 0)
           ELSE /\ last_op' = Operation("call", s, attr, "AttributeError", 0)
                /\ UNCHANGED << lists, put >>
    /\ UNCHANGED << stacks, calls, sent, inputs, outputs, control, history, envvars >>

\* stack.flush(logger)
Flush(s) ==
    /\ LET l == stacks[s].messages
           out == FlushCalls(stacks[s].name, lists[l])
       IN  /\ calls' = calls \o out
           /\ sent' = [sent EXCEPT ![l] = @ \o out]
           /\ lists' = [lists EXCEPT ![l] = FlushLeaves(@)]
           /\ last_op' = Operation("flush", s, "", "none", Len(out))
    /\ UNCHANGED << stacks, put, inputs, outputs, control, history, envvars >>

\* LoggingStack(*stack.picklable()) with the tuple gone through pickle, as the
\* result of a task comes back from its worker: the stack built from the
\* tuple, with its own copy of the list, takes the place of stack s
Transport(s) ==
    /\ LET r == Reconstruct(Picklable(Deref(s)))
           l == stacks[s].messages
       IN  /\ stacks' = [stacks EXCEPT ![s] = [name |-> r.name, messages |-> l]]
           /\ lists' = [lists EXCEPT ![l] = r.messages]
    /\ last_op' = Operation("transport", s, "", "none", 0)
    /\ UNCHANGED << calls, put, sent, inputs, outputs, control, history, envvars >>

StackNext ==
    \/ \E name \in Stations : Construct(name)
    \/ \E s \in 1..Len(stacks) : \E c \in Logged : GetAttr(s, c[1], c[2], c[3])
    \/ \E s \in 1..Len(stacks) : Flush(s)
    \/ \E s \in 1..Len(stacks) : Transport(s)

StackSpec == Init /\ [][StackNext]_vars

(* ----------------------------- require_tools --------------------------- *)
\* the system tools the decorated functions of the package name
Tools == {"csvcut", "wc", "awk", "column"}

\* the arguments of the @require_tools(...) lines of the package
ToolsCleanColumns == << "csvcut", "wc" >>
Decorated == {ToolsCleanColumns, << "awk" >>, << "awk", "column" >>}

RECURSIVE CheckToolsCacheAll(_, _, _)
\* a loop that adds every tool it looks up to the cache, found or not
CheckToolsCacheAll(tools, checked, path) ==
    IF tools = << >> THEN [checked |-> checked, missing |-> << >>, looked |-> << >>]
    ELSE LET tool == Head(tools)
             rest == CheckToolsCacheAll(Tail(tools), checked \cup {tool}, path)
         IN  [checked |-> rest.checked,
              missing |-> (IF tool \notin checked /\ tool \notin path
                           THEN << tool >> ELSE << >>) \o rest.missing,
              looked |-> (IF tool \notin checked THEN << tool >> ELSE << >>) \o rest.looked]

RECURSIVE CheckTools(_, _, _)
\* the loop "for tool in tools" of wrapper: the cache after it, the tools it
\* found missing and the tools it gave to shutil.which, in order
CheckTools(tools, checked, path) ==
    IF tools = << >> THEN [checked |-> checked, missing |-> << >>, looked |-> << >>]
    ELSE LET tool == Head(tools)
             found == tool \in path
             now == IF tool \notin checked /\ found THEN checked \cup {tool} ELSE checked
             rest == CheckTools(Tail(tools), now, path)
         IN  [checked |-> rest.checked,
              missing |-> (IF tool \notin checked /\ ~found
                           THEN << tool >> ELSE << >>) \o rest.missing,
              looked |-> (IF tool \notin checked THEN << tool >> ELSE << >>) \o rest.looked]

\* what a call of wrapper leaves: "ran" when func(*args) was called,
\* "RuntimeError" when the wrapper raised before it
Called(tools, r) ==
    [tools |-> tools, looked |-> r.looked, missing |-> r.missing,
     outcome |-> IF r.missing # << >> THEN "RuntimeError" ELSE "ran"]

\* a call of a function decorated with @require_tools(*tools)
Wrapper(tools) ==
    /\ LET r == CheckTools(tools, checked_tools, on_path)
       IN  /\ checked_tools' = r.checked
           /\ last_call' = Called(tools, r)
    /\ UNCHANGED << on_path, buffer, inputs, outputs, control, history, stackvars, pathvars >>

\* a tool is installed in PATH or removed from it
PathChanges(tool) ==
    /\ on_path' = (IF tool \in on_path THEN on_path \ {tool} ELSE on_path \cup {tool})
    /\ UNCHANGED << checked_tools, last_call, buffer,
                    inputs, outputs, control, history, stackvars, pathvars >>

(* ------------------------ the GHCNd per-station task ------------------- *)
\* What the csv file of a station and the commands run on it do:
\*   absent         the file does not exist
\*   ok
\*   wc_fails       "csvcut -n | wc -l" exits with an error
\*   ncol_differs   the file has not the expected number of columns
\*   manual_fails   the same, and the cleaning with pandas raises
\*   csvcut_fails   "csvcut -C" exits with an error
\*   mv_fails       the "mv" of the cleaned file exits with an error
\*   parquet_fails  the conversion to parquet raises
\*   rm_fails       the "rm" of the csv file exits with an error
CsvKinds == {"absent", "ok", "wc_fails", "ncol_differs", "manual_fails",
             "csvcut_fails", "mv_fails", "parquet_fails", "rm_fails"}

\* the body of _clean_columns(input, output, indices, names, logger, expected_ncol)
CleanColumns(csv, logger) ==
    LET completed(lg) ==
            StackAppend(StackAppend(lg, "info", "Column cleaning completed", << >>),
                        "debug", "Input -> output", << >>)
        manual == StackAppend(StackAppend(StackAppend(logger,
                      "warning", "Number of columns different from expected", << >>),
                      "debug", "Number of columns vs. expected", << >>),
                      "info", "Attempt cleaning columns manually", << >>)
    IN  CASE csv = "wc_fails" ->
               [raised |-> TRUE,
                logger |-> StackAppend(logger, "error", "csvcut/wc failed", << >>)]
          [] csv = "manual_fails" -> [raised |-> TRUE, logger |-> manual]
          [] csv = "ncol_differs" ->
               [raised |-> FALSE,
                logger |-> completed(StackAppend(manual, "info", "Success", << >>))]
          [] csv = "csvcut_fails" ->
               [raised |-> TRUE,
                logger |-> StackAppend(logger, "error", "csvcut failed", << >>)]
          [] OTHER -> [raised |-> FALSE, logger |-> completed(logger)]

\* _single_station_to_parquet(station_id, logger)
SingleStationToParquet(csv, logger) ==
    IF csv = "parquet_fails" THEN [raised |-> TRUE, logger |-> logger]
    ELSE [raised |-> FALSE,
          logger |-> StackAppend(StackAppend(logger,
                         "info", "Conversion to parquet completed", << >>),
                         "debug", "Input -> output", << >>)]

\* the two records an aborted GHCNd task ends with
AbortStation(logger, what, station_id) ==
    StackAppend(StackAppend(logger, "error", what, << >>),
                "error", "Abort task", << station_id >>)

\* _preprocess_single_station(station_id, expected_ncol): the tuple it
\* returns, the cache after it, and the call of _clean_columns it made
PreprocessSingleStation(station_id, csv, checked, path) ==
    LET logger == NewStack(station_id)
        w == CheckTools(ToolsCleanColumns, checked, path)
        call == Called(ToolsCleanColumns, w)
        cc == CleanColumns(csv, logger)
        tp == SingleStationToParquet(csv, cc.logger)
        result(c, k, lg) == [checked |-> c, call |-> k, stack |-> Picklable(lg)]
    IN  CASE csv = "absent" ->
               result(checked, NoCall, AbortStation(logger, "File not found", station_id))
          [] w.missing # << >> ->
               result(w.checked, call,
                      AbortStation(logger, "Problem while cleaning columns", station_id))
          [] cc.raised \/ csv = "mv_fails" ->
               result(w.checked, call,
                      AbortStation(cc.logger, "Problem while cleaning columns", station_id))
          [] tp.raised \/ csv = "rm_fails" ->
               result(w.checked, call,
                      AbortStation(tp.logger, "Problem while converting to parquet", station_id))
          [] OTHER ->
               result(w.checked, call, TaskCompleted(tp.logger, station_id))

\* a _preprocess_single_station task is computed
StationTask(station_id, csv) ==
    /\ LET r == PreprocessSingleStation(station_id, csv, checked_tools, on_path)
       IN  /\ buffer' = r.stack
           /\ checked_tools' = r.checked
           /\ last_call' = IF r.call = NoCall THEN last_call ELSE r.call
    /\ UNCHANGED << on_path, inputs, outputs, control, history, stackvars, pathvars >>

ToolsNext ==
    \/ \E tools \in Decorated : Wrapper(tools)
    \/ \E tool \in Tools : PathChanges(tool)
    \/ \E station_id \in Stations : \E csv \in CsvKinds : StationTask(station_id, csv)

ToolsSpec == Init /\ [][ToolsNext]_vars

(* ------------------------------- PathConfig ---------------------------- *)
\* the directories of the file system a root can be: the dummy root and
\* two data roots
Directories == {DummyRoot, "/data/a", "/data/b"}

\* a symbolic link to the first data root
Link == "/data/current"

\* the paths given as a root, in paths.yaml, in path.txt or by a caller
RootArgs == Directories \cup {Link}

\* Path(p).resolve()
Resolve(p) == IF p = Link THEN "/data/a" ELSE p

\* p.exists() with the directories of fs in the file system
PathExists(p, fs) == Resolve(p) \in fs

\* socket.gethostname() and the domain nslookup gives for it
CurrentMachine == "machine1"
CurrentNetwork == "network1"

\* what _parse_pathsyaml can return as one of its dictionaries, as a set of
\* (target, root) pairs: nothing, a root for the current target, a root for
\* another target
MachineToRoot ==
    {{}} \cup {{<< CurrentMachine, p >>} : p \in RootArgs} \cup {{<< "machine2", "/data/b" >>}}
NetworkToRoot ==
    {{}} \cup {{<< CurrentNetwork, p >>} : p \in RootArgs} \cup {{<< "network2", "/data/b" >>}}

DictKeys(d) == {e[1] : e \in d}
DictGet(d, k) == (CHOOSE e \in d : e[1] = k)[2]

\* an auto mode that looks at the network first
AutoRootNetworkFirst(machine, network, machine_to_root, network_to_root, fs) ==
    IF network \in DictKeys(network_to_root)
    THEN IF ~PathExists(DictGet(network_to_root, network), fs) THEN DummyRoot
         ELSE DictGet(network_to_root, network)
    ELSE IF machine \in DictKeys(machine_to_root)
    THEN IF ~PathExists(DictGet(machine_to_root, machine), fs) THEN DummyRoot
         ELSE DictGet(machine_to_root, machine)
    ELSE DummyRoot

\* "Assign self.root" of __post_init__ in auto mode
AutoRoot(machine, network, machine_to_root, network_to_root, fs) ==
    IF machine \in DictKeys(machine_to_root)
    THEN IF ~PathExists(DictGet(machine_to_root, machine), fs) THEN DummyRoot
         ELSE DictGet(machine_to_root, machine)
    ELSE IF network \in DictKeys(network_to_root)
    THEN IF ~PathExists(DictGet(network_to_root, network), fs) THEN DummyRoot
         ELSE DictGet(network_to_root, network)
    ELSE DummyRoot

\* the root of __post_init__ in preconfig mode; txt is << >> when path.txt
\* is not there, << p >> when it holds p
PreconfigRoot(txt, fs) ==
    IF txt = << >> THEN DummyRoot
    ELSE IF ~PathExists(txt[1], fs) THEN DummyRoot
    ELSE txt[1]

\* PathConfig.is_operational()
IsOperational(config, fs) == config.root # DummyRoot /\ PathExists(config.root, fs)

\* PathConfig.manual_config(root)
ManualConfig(config, root, fs) ==
    LET root_path == Resolve(root)
    IN  IF ~PathExists(root_path, fs)
        THEN [raised |-> "FileNotFoundError", config |-> config]
        ELSE [raised |-> "none", config |-> [config EXCEPT !.root = root_path]]

PathOp(op, arg, raised) == [op |-> op, arg |-> arg, raised |-> raised]

NewPathConfig(init_mode, root, machine_to_root, network_to_root) ==
    [init_mode |-> init_mode, root |-> root,
     machine_to_root |-> machine_to_root, network_to_root |-> network_to_root]

\* PathConfig(init_mode=...): __post_init__. yaml "inconsistent" is a
\* paths.yaml with two roots for one target. A construction that raises
\* makes no object.
PostInit(init_mode) ==
    /\ CASE init_mode = "auto" ->
              \/ /\ path_op' = PathOp("init", "auto", "RuntimeError")
                 /\ UNCHANGED paths
              \/ \E m2r \in MachineToRoot : \E n2r \in NetworkToRoot :
                    /\ paths' = NewPathConfig("auto",
                                    AutoRoot(CurrentMachine, CurrentNetwork, m2r, n2r, exists),
                                    m2r, n2r)
                    /\ path_op' = PathOp("init", "auto", "none")
         [] init_mode = "preconfig" ->
              \E txt \in {<< >>} \cup {<< p >> : p \in RootArgs} :
                 /\ paths' = NewPathConfig("preconfig", PreconfigRoot(txt, exists), {}, {})
                 /\ path_op' = PathOp("init", "preconfig", "none")
         [] init_mode = "manual" ->
              \E root \in RootArgs :
                 LET r == ManualConfig(NewPathConfig("manual", "", {}, {}), root, exists)
                 IN  /\ paths' = IF r.raised = "none" THEN r.config ELSE paths
                     /\ path_op' = PathOp("init", root, r.raised)
         [] OTHER ->
              /\ path_op' = PathOp("init", init_mode, "ValueError")
              /\ UNCHANGED paths
    /\ UNCHANGED << exists, inputs, outputs, control, history, stackvars, toolvars >>

\* paths.manual_config(root) on the object that was made
ManualConfigCall(root) ==
    /\ paths # NoPathConfig
    /\ LET r == ManualConfig(paths, root, exists)
       IN  /\ paths' = r.config
           /\ path_op' = PathOp("manual_config", root, r.raised)
    /\ UNCHANGED << exists, inputs, outputs, control, history, stackvars, toolvars >>

\* a directory is made or removed
DirChanges(d) ==
    /\ exists' = (IF d \in exists THEN exists \ {d} ELSE exists \cup {d})
    /\ UNCHANGED << paths, path_op, inputs, outputs, control, history, stackvars, toolvars >>

PathNext ==
    \/ \E init_mode \in {"auto", "preconfig", "manual", "other"} : PostInit(init_mode)
    \/ \E root \in RootArgs : ManualConfigCall(root)
    \/ \E d \in Directories : DirChanges(d)

PathSpec == Init /\ [][PathNext]_vars

(* ======================== properties of the pipeline =================== *)
\* the entries the tasks of the call in progress folded, as a set
Folded == Range(InvTriples(tasks))

\* the count persisted for variable v and key k = (station_id, year)
HasEntry(inv, v, k) == inv[v].exists /\ k \in DOMAIN inv[v].rows

\* a step 2 has ended right after a step 1 that returned
AfterStep1Then2 == pc = "finished" /\ step = 2 /\ year_pass.ran

\* the keys both passes produced a count for, with the two counts:
\* << var, key, YearSource count, StationSource count >>
BothSources ==
    {<< x[1][1], x[1][2], x[1][3], x[2][3] >> :
        x \in {ab \in year_pass.triples \X Folded :
                  ab[1][1] = ab[2][1] /\ ab[1][2] = ab[2][2]}}

\* C1: after step 1 followed by step 2, every key that both passes produced a
\* count for is persisted with the YearSource count
C1_YearSourceWins ==
    AfterStep1Then2 =>
        \A q \in BothSources :
            HasEntry(inventory, q[1], q[2]) /\ inventory[q[1]].rows[q[2]] = q[3]

\* C1 witness: a step 2 ended after a step 1 and the two passes disagree on a key
C1_Witness ==
    AfterStep1Then2 /\ outcome = "returned" /\ \E q \in BothSources : q[3] # q[4]

\* the warnings in the log that name variable v, key k and the counts a and b
ConflictWarnings(v, k, a, b) ==
    {i \in 1..Len(log) : log[i].level = "warning"
                         /\ log[i].args = << k[1], v, k[2], a, b >>}

\* C2: step 2 logs exactly one warning for every key on which the two counts
\* differ, naming the key and both counts, and none for the other keys
C2_OneWarningPerConflict ==
    (AfterStep1Then2 /\ outcome = "returned") =>
        /\ \A q \in BothSources :
              q[3] # q[4] => Cardinality(ConflictWarnings(q[1], q[2], q[3], q[4])) = 1
        /\ Cardinality({i \in 1..Len(log) : log[i].level = "warning"})
              = Cardinality({q \in BothSources : q[3] # q[4]})

\* C3: whatever step runs, an inventory entry that the run does not supply is
\* still persisted, with its count, after the run
C3_NeverOverwritesWholesale ==
    [][pc = "collected" =>
          \A v \in Vars : \A k \in Keys :
              (HasEntry(inventory, v, k) /\ ~\E t \in Folded : t[1] = v /\ t[2] = k)
                  => (HasEntry(inventory', v, k)
                      /\ inventory'[v].rows[k] = inventory[v].rows[k])]_vars

\* the station-years the call that just returned has exported from a file
\* that was read and parsed: << station_id, year, rows per variable >>
Exported ==
    IF step = 1
    THEN {<< k[1], k[2], by_year[k].cnt >> :
             k \in {x \in StationYearParquet :
                       by_year[x].kind \in {"ok", "mixed"} /\ by_year[x].cols = Vars}}
    ELSE {<< k[1], k[2], by_station[k[1]].cnt[k[2]] >> :
             k \in {x \in missing_by_year :
                       /\ by_station[x[1]].kind = "ok"
                       /\ by_station[x[1]].cols = Vars
                       /\ \A v \in Vars : << v, x[2] >> \in folders
                       /\ \E i \in 1..Len(tasks) :
                             tasks[i].sid = x[1] /\ ~tasks[i].inv_none}}

\* C4: after a step, a partition file exists for a key iff the key has usable
\* rows in the current input, and a key without usable rows has no inventory
\* entry, also when it had rows in an earlier run
C4_PartitionIffRows ==
    (pc = "finished" /\ step \in {1, 2} /\ outcome = "returned") =>
        \A e \in Exported : \A v \in Vars :
            /\ partitions[GhcnhFile(e[1], e[2], v)].exists <=> e[3][v] # 0
            /\ e[3][v] = 0 => ~HasEntry(inventory, v, << e[1], e[2] >>)

\* C5: a step 1 that follows a step 1 with the same input files changes
\* neither a partition nor an inventory entry
C5_Step1Idempotent ==
    [][(step = 1 /\ pc \in {"compute", "collected"}
            /\ year_pass.ran /\ year_pass.clean)
          => (partitions' = partitions /\ inventory' = inventory)]_vars

\* C5 witness: a second step 1 on unchanged inputs has returned, with
\* partitions and inventory entries on disk
C5_Witness ==
    /\ pc = "finished" /\ step = 1 /\ outcome = "returned"
    /\ year_pass.ran /\ year_pass.clean
    /\ \E k \in PKeys : partitions[k].exists
    /\ \E v \in Vars : inventory[v].exists /\ DOMAIN inventory[v].rows # {}

\* C6: no exception raised inside a task leaves compute()
C6_NoTaskExceptionEscapes == outcome # "Exception"

\* C7: a call in which the pool terminated a worker does not abort
C7_WorkerDeathNotFatal == outcome # "KilledWorker"

\* C8: a call with a step other than 1 and 2 raises before the cluster is
\* created, before a task is built and before a folder is made
C8_InvalidStepRaisesFirst ==
    [][(pc = "idle" /\ pc' # "idle" /\ step' \notin {1, 2})
          => (pc' = "finished" /\ outcome' \in Raised /\ pool' = "none"
              /\ tasks' = << >> /\ folders' = folders)]_vars

LastMessage(t) == t.logger.messages[Len(t.logger.messages)]

FlushedRecords(l) == {i \in 1..Len(l) : l[i].prefix # << >>}

\* C10: a buffered record is emitted, the station list or an inventory is
\* written only when every task has returned and the cluster is shut down
C10_SingleBarrier ==
    [][(\/ station_list' # station_list
        \/ inventory' # inventory
        \/ Cardinality(FlushedRecords(log')) > Cardinality(FlushedRecords(log)))
          => (/\ pc = "collected"
              /\ pool = "closed"
              /\ \A i \in 1..Len(tasks) : tasks[i].phase = "done")]_vars

\* C10 witness: a step 2 with two tasks has flushed their records and
\* written the station list and the inventories
C10_Witness ==
    /\ pc = "finished" /\ step = 2 /\ outcome = "returned"
    /\ Len(tasks) >= 2
    /\ FlushedRecords(log) # {}
    /\ station_list # StationListInit

(* --------------------- tasks, station-years, station list -------------- *)
\* task t as it was built, before a worker ran any part of it
Fresh(t) == NewTask(t.kind, t.sid, t.years, t.return_metadata)

RECURSIVE TaskWrites(_)
\* the partitions task t writes when it runs from where it is to its end,
\* as (partition, rows) pairs
TaskWrites(t) ==
    IF ~Running(t) THEN {}
    ELSE LET r == TaskTurn(t)
         IN  {<< GhcnhFile(t.sid, r.year, w[1]), w[2] >> : w \in r.written}
                 \cup TaskWrites(r.task)

\* the tasks of the call as they were built; a call that raised has dropped
\* them and has left the files they were built from as they were
StepTasks ==
    IF tasks # << >> THEN [i \in 1..Len(tasks) |-> Fresh(tasks[i])]
    ELSE IF step = 1 THEN TasksParquet
    ELSE IF step = 2 THEN TasksPsv
    ELSE << >>

\* C11: a step that has ended leaves on disk every partition that its tasks
\* write when each of them runs to its end, which is what the step leaves
\* when the workers run a failing task last: the outcome does not depend on
\* the order in which the workers ran the tasks
C11_SameOutcomeEveryInterleaving ==
    (pc = "finished" /\ step \in {1, 2} /\ outcome # "KilledWorker") =>
        \A i \in 1..Len(StepTasks) : \A w \in TaskWrites(StepTasks[i]) :
            partitions[w[1]].exists /\ partitions[w[1]].rows = w[2]

\* C12: the tasks of a step have pairwise different stations, and no
\* partition is written by two of them
C12_OneTaskPerStation ==
    \A i, j \in 1..Len(tasks) :
        i # j =>
            /\ tasks[i].sid # tasks[j].sid
            /\ {w[1] : w \in TaskWrites(Fresh(tasks[i]))}
                   \cap {w[1] : w \in TaskWrites(Fresh(tasks[j]))} = {}

\* C12 witness: two tasks of one step have both run to their end and each
\* wrote partitions
C12_Witness ==
    /\ pc = "compute" /\ Len(tasks) = 2
    /\ \A i \in 1..Len(tasks) :
          tasks[i].phase = "done" /\ TaskWrites(Fresh(tasks[i])) # {}

\* the station-years given to the tasks of the call
Assigned ==
    UNION {{<< tasks[i].sid, tasks[i].years[j] >> : j \in 1..Len(tasks[i].years)} :
              i \in 1..Len(tasks)}

\* C13: step 1 gives its tasks exactly the station-years of the inventory
\* that are not in the exception list, step 2 exactly the station-years of
\* the inventory that are in it
C13_StepsPartitionInventory ==
    pc = "compute" =>
        /\ step = 1 => Assigned = station_year \ missing_by_year
        /\ step = 2 => Assigned = station_year \cap missing_by_year

ListedIds(l) == {l[i].station_id : i \in 1..Len(l)}

RowsOf(l, sid) == {i \in 1..Len(l) : l[i].station_id = sid}

\* the station ids of the station-year inventory
Scope == {k[1] : k \in station_year}

\* C14: the station list step 2 writes has no station outside the inventory,
\* and every listed station of the inventory keeps its row as it was
C14_StationListInScope ==
    [][(pc = "collected" /\ step = 2) =>
          /\ ListedIds(station_list') \subseteq Scope
          /\ \A i \in 1..Len(station_list) :
                station_list[i].station_id \in Scope =>
                    /\ \E j \in 1..Len(station_list') : station_list'[j] = station_list[i]
                    /\ Cardinality(RowsOf(station_list', station_list[i].station_id))
                          = Cardinality(RowsOf(station_list, station_list[i].station_id))]_vars

\* C14 witness: a step 2 has written a station list without station 3, which
\* was listed and has no station-year, and with the row station 1 had
C14_Witness ==
    /\ pc = "finished" /\ step = 2
    /\ 3 \notin ListedIds(station_list)
    /\ \E i \in 1..Len(station_list) : station_list[i] = ListRow(1, Value(5))

\* the tasks of the step 2 that has ended which captured metadata
Captured == {i \in 1..Len(tasks) : tasks[i].return_metadata /\ ~tasks[i].metadata.none}

\* C15 as stated: every station whose metadata a task of step 2 captured is
\* listed with a latitude, a longitude, an elevation and a name that are not null
C15_AllFieldsPopulated ==
    (pc = "finished" /\ step = 2) =>
        \A i \in Captured :
            \E j \in RowsOf(station_list, tasks[i].sid) :
                /\ station_list[j].lat # NaN
                /\ station_list[j].lon # NaN
                /\ station_list[j].elevation # NaN
                /\ station_list[j].station_name # NaN

\* C15 amended: every station whose metadata a task of step 2 captured is
\* listed once, with the latitude, longitude and name of its by-station file
\* and with the elevation of that file, or a null elevation when the file
\* has -999.9
C15_FieldsAsInFile ==
    (pc = "finished" /\ step = 2) =>
        \A i \in Captured :
            LET meta == by_station[tasks[i].sid].meta
                rows == RowsOf(station_list, tasks[i].sid)
            IN  /\ Cardinality(rows) = 1
                /\ \A j \in rows :
                      /\ station_list[j].lat = Value(meta.lat)
                      /\ station_list[j].lon = Value(meta.lon)
                      /\ station_list[j].station_name = Value(meta.station_name)
                      /\ station_list[j].elevation =
                            (IF meta.elevation = MissingElevation THEN NaN
                             ELSE Value(meta.elevation))

\* C15 witness: a step 2 has listed a new station whose file has -999.9 as
\* elevation
C15_Witness ==
    /\ pc = "finished" /\ step = 2
    /\ \E i \in Captured :
          /\ by_station[tasks[i].sid].meta.elevation = MissingElevation
          /\ RowsOf(station_list, tasks[i].sid) # {}

(* ------------------------------ LoggingStack --------------------------- *)
\* the call on the logger that record rec of a stack called name stands for
ExpectedCall(name, rec) ==
    [level |-> Lower(rec.level), prefix |-> << name >>,
     msg |-> rec.message, args |-> rec.args]

ExpectedCalls(name, recs) == [i \in 1..Len(recs) |-> ExpectedCall(name, recs[i])]

\* the list object of the stack the last operation was on, before and after it
ListBefore == stacks[last_op'.stack].messages
ListAfter == stacks'[last_op'.stack].messages

\* C16: only flush makes calls on the logger, and the calls a flush makes are
\* the records still buffered, in the order they were appended, each with the
\* method of its severity and the name of the stack in front of its template
C16_FlushInOrder ==
    [][/\ calls' # calls => last_op'.op = "flush"
       /\ last_op'.op = "flush" =>
             calls' = calls \o ExpectedCalls(stacks[last_op'.stack].name, Pending(ListBefore))]_vars

\* C16 witness: a flush has emitted two records of different severities
C16_Witness ==
    /\ last_op.op = "flush" /\ last_op.emitted = 2
    /\ Len(calls) = 2
    /\ calls[1].level # calls[2].level
    /\ calls[1].msg # calls[2].msg

\* C17: of the records given to a list, the first ones have been emitted
\* once each, in order, and the others are still buffered; a flush leaves the
\* buffer empty and a flush of an empty buffer emits nothing
C17_FlushedExactlyOnce ==
    [][/\ \A l \in 1..Len(lists') :
             /\ Len(sent'[l]) + Len(lists'[l]) = Len(put'[l])
             /\ \A i \in 1..Len(sent'[l]) :
                   /\ sent'[l][i].msg = put'[l][i].message
                   /\ sent'[l][i].args = put'[l][i].args
       /\ last_op'.op = "flush" =>
             /\ lists'[ListAfter] = << >>
             /\ lists[ListBefore] = << >> => calls' = calls]_vars

\* C17 witness: a flush of a stack that had been flushed, with nothing
\* appended since, has emitted nothing
C17_Witness ==
    /\ last_op.op = "flush" /\ last_op.emitted = 0
    /\ sent[stacks[last_op.stack].messages] # << >>
    /\ calls # << >>

\* C18: the stack built from the tuple of stack s has the name of s and the
\* records of s in the same order, and a flush of it makes the calls a flush
\* of s would have made
C18_RoundTrip ==
    [][last_op'.op = "transport" =>
          LET s == last_op'.stack
          IN  /\ stacks'[s].name = stacks[s].name
              /\ lists'[stacks'[s].messages] = lists[stacks[s].messages]
              /\ FlushCalls(stacks'[s].name, lists'[stacks'[s].messages])
                    = ExpectedCalls(stacks[s].name, Pending(stacks[s].messages))]_vars

\* C18 witness: a stack holding two records has gone through pickle
C18_Witness ==
    /\ last_op.op = "transport"
    /\ Len(lists[stacks[last_op.stack].messages]) = 2

\* the calls that are one record appended to the list of the stack, nothing
\* emitted and nothing else changed
AppendsOneRecord ==
    LET l == ListBefore
        rec == put'[l][Len(put'[l])]
    IN  /\ last_op'.raised = "none"
        /\ rec.level = last_op'.attr
        /\ lists' = [lists EXCEPT ![l] = Append(@, << rec.level, rec.message >> \o rec.args)]
        /\ calls' = calls

RaisesAttributeError ==
    last_op'.raised = "AttributeError" /\ lists' = lists /\ calls' = calls

\* C19 as stated: the five names debug, info, warning, error and critical
\* append one record; every other name raises AttributeError
C19_ExactlyFiveMethods ==
    [][last_op'.op = "call" =>
          IF last_op'.attr \in SeverityNames THEN AppendsOneRecord
          ELSE RaisesAttributeError]_vars

\* the five severity names in small letters and in capitals
AnyCase == SeverityNames \cup {"DEBUG", "INFO", "WARNING", "ERROR", "CRITICAL"}

\* C19 amended: a name that is one of the five severity names in small
\* letters or in capitals appends one record with the name as it was written
\* and emits nothing; every other name raises AttributeError and leaves the
\* buffers as they were
C19_FiveNamesAnyCase ==
    [][last_op'.op = "call" =>
          IF last_op'.attr \in AnyCase THEN AppendsOneRecord
          ELSE RaisesAttributeError]_vars

\* C19 witness: a call of WARNING has appended a record
C19_Witness ==
    /\ last_op.op = "call" /\ last_op.attr = "WARNING" /\ last_op.raised = "none"
    /\ LET b == lists[stacks[last_op.stack].messages]
       IN  b # << >> /\ b[Len(b)][1] = "WARNING"

(* --------------------------- the flush of a step ----------------------- *)
\* the records of the log that the stacks emitted, in order
Flushed == SelectSeq(log, LAMBDA rec : rec.prefix # << >>)

\* the records of the log emitted for station sid, in order
FlushedOf(sid) == SelectSeq(log, LAMBDA rec : rec.prefix = << sid >>)

\* the place of the task of station sid among the tasks of the call
TaskOf(sid) == CHOOSE i \in 1..Len(tasks) : tasks[i].sid = sid

\* no record of another station between two records of one station, and
\* every record under the station of the task that appended it
FlushedPerStation ==
    /\ \A i, j, k \in 1..Len(Flushed) :
          (i < j /\ j < k /\ Flushed[i].prefix = Flushed[k].prefix)
              => Flushed[j].prefix = Flushed[i].prefix
    /\ \A i \in 1..Len(Flushed) : \E t \in 1..Len(tasks) : Flushed[i].prefix = << tasks[t].sid >>
    /\ \A t \in 1..Len(tasks) :
          FlushedOf(tasks[t].sid) = ExpectedCalls(tasks[t].sid,
              [m \in 1..Len(tasks[t].logger.messages) |->
                  [level |-> tasks[t].logger.messages[m][1],
                   message |-> tasks[t].logger.messages[m][2],
                   args |-> SubSeq(tasks[t].logger.messages[m], 3,
                                   Len(tasks[t].logger.messages[m]))]])

\* a step has flushed the stacks of its tasks
HasFlushed == pc = "finished" /\ step \in {1, 2} /\ tasks # << >>

\* C20 as stated: the records are flushed station by station, each under its
\* station, the stations in ascending order
C20_AscendingStationOrder ==
    HasFlushed =>
        /\ FlushedPerStation
        /\ \A i, j \in 1..Len(Flushed) :
              i < j => Flushed[i].prefix[1] <= Flushed[j].prefix[1]

\* C20 amended: the records are flushed station by station, each under its
\* station, the stations in the order in which their tasks were built, which
\* in step 1 is the ascending order
C20_TaskOrder ==
    HasFlushed =>
        /\ FlushedPerStation
        /\ \A i, j \in 1..Len(Flushed) :
              i < j => TaskOf(Flushed[i].prefix[1]) <= TaskOf(Flushed[j].prefix[1])
        /\ step = 1 => \A i, j \in 1..Len(Flushed) :
              i < j => Flushed[i].prefix[1] <= Flushed[j].prefix[1]

\* C20 witness: a step 2 has flushed the records of two stations, those of
\* the station with the larger id first
C20_Witness ==
    /\ HasFlushed /\ step = 2 /\ outcome = "returned"
    /\ \E i, j \in 1..Len(Flushed) : i < j /\ Flushed[i].prefix[1] > Flushed[j].prefix[1]

(* ------------------------------ missing input -------------------------- *)
\* a worker has run the next part of task i
Stepped(i) ==
    /\ pc = "compute" /\ pc' = "compute"
    /\ tasks'[i] # tasks[i]
    /\ tasks'[i] # Fresh(tasks[i])

\* the records the step appended to the stack of task i
NewRecords(i) ==
    SubSeq(tasks'[i].logger.messages,
           Len(tasks[i].logger.messages) + 1, Len(tasks'[i].logger.messages))

\* the next part of task i reads a by-year file that is absent
MissingYearFile(i) ==
    /\ tasks[i].kind = "parquet" /\ Running(tasks[i])
    /\ by_year[<< tasks[i].sid, tasks[i].years[tasks[i].done + 1] >>].kind = "absent"

\* the next part of task i reads a by-station file that is absent
MissingStationFile(i) ==
    /\ tasks[i].kind = "psv" /\ tasks[i].phase = "prelude"
    /\ by_station[tasks[i].sid].kind = "absent"

\* the years of which task t recorded that the by-year file was not found
YearsNotFound(t) ==
    {t.logger.messages[m][4] :
        m \in {n \in 1..Len(t.logger.messages) :
                  /\ t.kind = "parquet"
                  /\ t.logger.messages[n][2] = "File not found"}}

RECURSIVE RunToEnd(_)
\* task t after it has run, alone, from where it is to its end
RunToEnd(t) == IF Running(t) THEN RunToEnd(TaskTurn(t).task) ELSE t

\* C21: a task that finds a by-year file absent does not raise, appends two
\* error records, writes no partition and folds no entry for that year, and
\* goes on with its next year; a task that finds its by-station file absent
\* appends two error records and returns no inventory and no metadata; in
\* both cases no other task changes, and every task that is done is what it
\* is when it runs alone
C21_MissingInputIsolated ==
    [][/\ \A i \in 1..Len(tasks) :
             Stepped(i) =>
                 /\ MissingYearFile(i) =>
                       /\ tasks'[i].phase = (IF tasks[i].done + 1 = Len(tasks[i].years)
                                             THEN "done" ELSE "years")
                       /\ tasks'[i].done = tasks[i].done + 1
                       /\ Len(NewRecords(i)) >= 2
                       /\ NewRecords(i)[1][1] = "error" /\ NewRecords(i)[1][2] = "File not found"
                       /\ NewRecords(i)[2][1] = "error"
                       /\ tasks'[i].inv = tasks[i].inv
                       /\ partitions' = partitions
                 /\ MissingStationFile(i) =>
                       /\ tasks'[i].phase = "done"
                       /\ Len(NewRecords(i)) = 2
                       /\ NewRecords(i)[1][1] = "error" /\ NewRecords(i)[1][2] = "File not found"
                       /\ NewRecords(i)[2][1] = "error"
                       /\ tasks'[i].inv_none /\ tasks'[i].inv = << >>
                       /\ tasks'[i].metadata.none
                       /\ partitions' = partitions
                 /\ (MissingYearFile(i) \/ MissingStationFile(i)) =>
                       \A j \in 1..Len(tasks) : j # i => tasks'[j] = tasks[j]
       /\ \A i \in 1..Len(tasks) :
             /\ \A e \in Range(tasks[i].inv) : e[2] \notin YearsNotFound(tasks[i])
             /\ tasks[i].phase = "done" => tasks[i] = RunToEnd(Fresh(tasks[i]))]_vars

\* C21 witness: a step 1 has returned in which the task of one station found
\* the file of its first year absent and folded entries of its second year,
\* and the task of another station folded entries too
C21_Witness ==
    /\ pc = "finished" /\ step = 1 /\ outcome = "returned"
    /\ \E i, j \in 1..Len(tasks) :
          /\ i # j
          /\ tasks[i].years = << 1, 2 >>
          /\ YearsNotFound(tasks[i]) = {1}
          /\ \E e \in Range(tasks[i].inv) : e[2] = 2
          /\ tasks[j].inv # << >>
          /\ \E v \in Vars : HasEntry(inventory, v, << tasks[j].sid, tasks[j].years[1] >>)

(* ----------------------------- the two steps --------------------------- *)
\* the call has gone past compute(): it flushed the stacks and went on to
\* write its files
PastCompute == pc = "finished" /\ tasks # << >>

\* C22: a step whose tasks have all returned completes, whatever ran before
\* it; a step 2 persists every count its tasks folded, whether or not the
\* variable has a per-variable inventory from step 1
C22_StepsIndependent ==
    (PastCompute /\ step \in {1, 2}) =>
        /\ outcome = "returned"
        /\ step = 2 => \A q \in Folded : HasEntry(inventory, q[1], q[2])

\* C23: when step 2 writes the inventories, every key its tasks folded that
\* had no entry gets one with the StationSource count, and every entry whose
\* key its tasks did not fold stays with its count
C23_SingleSourceKeysKept ==
    [][(pc = "collected" /\ step = 2) =>
          /\ \A q \in Folded :
                ~HasEntry(inventory, q[1], q[2]) =>
                    (HasEntry(inventory', q[1], q[2])
                     /\ inventory'[q[1]].rows[q[2]] = q[3])
          /\ \A v \in Vars : \A k \in Keys :
                (HasEntry(inventory, v, k) /\ ~\E q \in Folded : q[1] = v /\ q[2] = k)
                    => (HasEntry(inventory', v, k)
                        /\ inventory'[v].rows[k] = inventory[v].rows[k])]_vars

(* ---------------------------- terminal records ------------------------- *)
\* the messages of the error records that name the phase a task failed in
Phases ==
    {"File not found", "Problem while parsing dtypes", "Problem while parsing datetime",
     "Problem while recording metadata", "Problem while cleaning columns",
     "Problem while converting to parquet"}

Has(messages, msg) == \E m \in 1..Len(messages) : messages[m][2] = msg

\* the buffer ends with an info "Task completed" record and has no "Abort
\* task" record, or it ends with an error "Abort task" record that follows an
\* error record naming a phase and has no "Task completed" record
Terminal(messages) ==
    LET n == Len(messages)
    IN  /\ n >= 1
        /\ \/ /\ messages[n][1] = "info" /\ messages[n][2] = "Task completed"
              /\ ~Has(messages, "Abort task")
           \/ /\ messages[n][1] = "error" /\ messages[n][2] = "Abort task"
              /\ n > 1
              /\ messages[n - 1][1] = "error" /\ messages[n - 1][2] \in Phases
              /\ ~Has(messages, "Task completed")

\* a task that went through its whole body has "Task completed" as its last
\* record, a task that returned before has "Abort task"
EndsAsItRan(t) ==
    LastMessage(t)[2] = (IF t.kind = "psv" /\ t.inv_none THEN "Abort task"
                         ELSE "Task completed")

\* C24: the buffer a per-station task returns ends with its terminal record,
\* for the GHCNh tasks of a step and for the GHCNd task whatever its csv
\* file and the tools in PATH are
C24_TerminalRecord ==
    /\ \A i \in 1..Len(tasks) :
          tasks[i].phase = "done" =>
              Terminal(tasks[i].logger.messages) /\ EndsAsItRan(tasks[i])
    /\ buffer # << >> => Terminal(buffer[2])
    /\ \A csv \in CsvKinds : \A path \in {{}, Tools} : \A station_id \in Stations :
          LET stack == PreprocessSingleStation(station_id, csv, checked_tools, path).stack
          IN  /\ Terminal(stack[2])
              /\ Has(stack[2], "Task completed")
                    <=> (/\ csv \in {"ok", "ncol_differs"}
                         /\ Range(ToolsCleanColumns) \subseteq checked_tools \cup path)

\* C24 witness: the tasks of a step 2 have returned, one with "Abort task"
\* as its last record and one with "Task completed"
C24_Witness ==
    /\ pc = "collected" /\ step = 2
    /\ \E i, j \in 1..Len(tasks) :
          /\ LastMessage(tasks[i])[2] = "Abort task"
          /\ LastMessage(tasks[j])[2] = "Task completed"

(* ----------------------------- require_tools --------------------------- *)
\* a decorated function was called in this step
WrapperCalled == last_call' # last_call \/ checked_tools' # checked_tools

\* C25: the body of a decorated function runs iff each of its tools is in
\* the cache or in PATH when it is called, and RuntimeError is raised
\* otherwise; the cache only grows, and only by tools that were found in
\* PATH; a tool that is in the cache is not looked up
C25_BodyRunsIffToolsFound ==
    [][/\ checked_tools \subseteq checked_tools'
       /\ checked_tools' \subseteq checked_tools \cup on_path
       /\ WrapperCalled =>
             /\ last_call'.outcome \in {"ran", "RuntimeError"}
             /\ last_call'.outcome = "ran"
                   <=> Range(last_call'.tools) \subseteq checked_tools \cup on_path
             /\ Range(last_call'.looked) \cap checked_tools = {}
             /\ Range(last_call'.looked) = Range(last_call'.tools) \ checked_tools
             /\ checked_tools' = checked_tools \cup (Range(last_call'.tools) \cap on_path)]_vars

\* C25 witness: the body of a function with two tools ran without a lookup,
\* its tools being in the cache and one of them no longer in PATH, and a
\* GHCNd task has aborted while cleaning columns
C25_Witness ==
    /\ last_call.outcome = "ran"
    /\ Len(last_call.tools) > 1
    /\ last_call.looked = << >>
    /\ Range(last_call.tools) \subseteq checked_tools
    /\ \E tool \in Range(last_call.tools) : tool \notin on_path
    /\ buffer # << >> /\ Has(buffer[2], "Problem while cleaning columns")

(* ------------------------------- PathConfig ---------------------------- *)
\* this step was an operation on the PathConfig
PathOperation == path_op' # path_op \/ paths' # paths

\* this step was manual_config(root), called by a client or by __post_init__
ManualConfigured ==
    /\ PathOperation
    /\ path_op'.op = "manual_config" \/ (path_op'.op = "init" /\ path_op'.arg \in RootArgs)

\* this step made a PathConfig in auto mode
AutoInitialized ==
    PathOperation /\ path_op'.op = "init" /\ path_op'.arg = "auto" /\ path_op'.raised = "none"

\* the root auto mode selects: the path of the current machine if it has
\* one, else the path of the current network if it has one
Selected(config) ==
    IF CurrentMachine \in DictKeys(config.machine_to_root)
    THEN << DictGet(config.machine_to_root, CurrentMachine) >>
    ELSE IF CurrentNetwork \in DictKeys(config.network_to_root)
    THEN << DictGet(config.network_to_root, CurrentNetwork) >>
    ELSE << >>

\* in auto mode the root is the selected path, or the dummy root when that
\* path does not exist or nothing is selected, and the object is operational
\* iff its root exists and is not the dummy root
AutoModeRoot ==
    AutoInitialized =>
        /\ paths'.root = (IF Selected(paths') = << >> THEN DummyRoot
                          ELSE IF ~PathExists(Selected(paths')[1], exists) THEN DummyRoot
                          ELSE Selected(paths')[1])
        /\ IsOperational(paths', exists') <=>
              (/\ Selected(paths') # << >>
               /\ PathExists(Selected(paths')[1], exists)
               /\ Selected(paths')[1] # DummyRoot)

\* manual_config(root) with a root that does not exist raises
\* FileNotFoundError and leaves the object as it was
ManualConfigRaises ==
    (ManualConfigured /\ ~PathExists(path_op'.arg, exists)) =>
        path_op'.raised = "FileNotFoundError" /\ paths' = paths

\* C26 as stated: manual_config(root) with a directory that exists makes
\* root the root of the object and the object operational
C26_ManualConfigOperational ==
    [][/\ AutoModeRoot
       /\ ManualConfigRaises
       /\ (ManualConfigured /\ PathExists(path_op'.arg, exists)) =>
             /\ path_op'.raised = "none"
             /\ paths'.root = path_op'.arg
             /\ IsOperational(paths', exists')]_vars

\* C26 amended: manual_config(root) with a directory that exists makes the
\* resolved path of root the root of the object, and the object operational
\* unless that path is the dummy root
C26_ManualConfigResolved ==
    [][/\ AutoModeRoot
       /\ ManualConfigRaises
       /\ (ManualConfigured /\ PathExists(path_op'.arg, exists)) =>
             /\ path_op'.raised = "none"
             /\ paths'.root = Resolve(path_op'.arg)
             /\ IsOperational(paths', exists') <=> Resolve(path_op'.arg) # DummyRoot]_vars

\* C26 witness: an object made in auto mode on a machine and a network that
\* both have a root, operational with the root of the machine, was given the
\* other data root by manual_config and is operational with it
C26_Witness ==
    /\ path_op = [op |-> "manual_config", arg |-> "/data/b", raised |-> "none"]
    /\ paths.init_mode = "auto"
    /\ paths.machine_to_root = {<< CurrentMachine, "/data/a" >>}
    /\ CurrentNetwork \in DictKeys(paths.network_to_root)
    /\ paths.root = "/data/b"
    /\ IsOperational(paths, exists)

(* ------------------------------ station list --------------------------- *)
\* C27: after a step 2 has written the station list, every station of the
\* inventory whose by-station file is there and parses is listed
C27_RetrievableStationsListed ==
    (PastCompute /\ step = 2) =>
        \A sid \in Scope :
            by_station[sid].kind = "ok" => sid \in ListedIds(station_list)

(* ----------------------- partitions and inventories -------------------- *)
\* the partitions the tasks of the call wrote, as (partition, rows) pairs
WrittenInStep == UNION {TaskWrites(Fresh(tasks[i])) : i \in 1..Len(tasks)}

\* C28: after a step has returned, every partition its tasks wrote has an
\* inventory entry for its station, variable and year, with the number of
\* rows of the partition as count
C28_PartitionsHaveEntries ==
    (PastCompute /\ step \in {1, 2} /\ outcome = "returned") =>
        \A w \in WrittenInStep :
            /\ partitions[w[1]].exists /\ partitions[w[1]].rows = w[2]
            /\ HasEntry(inventory, w[1][3], << w[1][1], w[1][2] >>)
            /\ inventory[w[1][3]].rows[<< w[1][1], w[1][2] >>] = w[2]

(* ------------------------ a parallel phase that raises ----------------- *)
\* compute() or the unpacking of its results raises in this step
ParallelPhaseRaises == pc = "compute" /\ pc' = "finished" /\ outcome' \in Raised

\* the partitions the tasks of the call write when they run to their end
TaskPartitions == {w[1] : w \in WrittenInStep}

\* from the first line of preprocess_ghcnh to the exception that leaves it,
\* the pool is shut down, the station list and the inventories stay as they
\* were and no record of a stack is emitted
RaisesCleanly ==
    /\ (pc \in {"idle", "compute"} \/ ParallelPhaseRaises) =>
          /\ station_list' = station_list
          /\ inventory' = inventory
          /\ FlushedRecords(log') = {}
    /\ ParallelPhaseRaises =>
          /\ pool' = "closed"
          /\ log'[Len(log')] = OwnLog("info", "Dask cluster has been properly shut down")

\* C29 as stated: when the parallel phase raises, the pool is shut down, the
\* station list and the inventories are as before the step, no buffered
\* record is emitted, and a partition that was not there before the step was
\* written by a task that had finished
C29_OnlyFinishedTasksWrote ==
    [][/\ RaisesCleanly
       /\ (ParallelPhaseRaises /\ runs = 1) =>
             \A k \in PKeys :
                 partitions'[k].exists =>
                     \E i \in 1..Len(tasks) :
                         /\ tasks[i].phase = "done"
                         /\ k \in {w[1] : w \in TaskWrites(Fresh(tasks[i]))}]_vars

\* C29 amended: when the parallel phase raises, the pool is shut down, the
\* station list and the inventories are as before the step, no buffered
\* record is emitted, and a partition that was not there before the step is
\* one a task of the step writes, whether that task had finished or not
C29_OnlyTasksWrote ==
    [][/\ RaisesCleanly
       /\ (ParallelPhaseRaises /\ runs = 1) =>
             \A k \in PKeys : partitions'[k].exists => k \in TaskPartitions]_vars

\* C29 witness: the first call, a step 2, raised KilledWorker with the pool
\* shut down, after the task of station 1 had written the partition of its
\* first year and before it wrote the one of its second year
C29_Witness ==
    /\ pc = "finished" /\ step = 2 /\ runs = 1
    /\ outcome = "KilledWorker" /\ pool = "closed"
    /\ {<< 1, 1 >>, << 1, 2 >>} \subseteq missing_by_year
    /\ by_station[1].kind = "ok"
    /\ \E v \in Vars : partitions[GhcnhFile(1, 1, v)].exists
    /\ \A v \in Vars : ~partitions[GhcnhFile(1, 2, v)].exists
    /\ \E v \in Vars : by_station[1].cnt[2][v] > 0 /\ v \in by_station[1].cols
    /\ inventory = [v \in Vars |-> NoInventory]
    /\ station_list = StationListInit


(* ------------------------------- C30 ----------------------------------- *)
\* every metadata tuple the tasks returned carries the id of its task's station
MetadataOfOwnStation ==
    \A i \in 1..Len(tasks) :
        ~tasks[i].metadata.none => tasks[i].metadata.station_id = tasks[i].sid

\* no station id occurs on two rows of the list l
EachIdOnce(l) == \A sid \in ListedIds(l) : Cardinality(RowsOf(l, sid)) = 1

\* C30: a station list with each id at most once stays so whenever step 2
\* writes it, provided every metadata tuple carries the id of its task's
\* station; the list the first call reads has each id once, so the list has
\* each id at most once after any sequence of step 2 runs
C30_StationIdsOnce ==
    [][(pc = "collected" /\ step = 2 /\ MetadataOfOwnStation /\ EachIdOnce(station_list))
          => EachIdOnce(station_list')]_vars

\* C30 witness: a second call, of step 2, has written a list with stations 1
\* and 2 once each, none of its tasks was asked for metadata, so that the row
\* of station 2 comes from an earlier step 2
C30_Witness ==
    /\ pc = "finished" /\ step = 2 /\ runs = MaxRuns - 1
    /\ tasks # << >>
    /\ \A i \in 1..Len(tasks) : ~tasks[i].return_metadata
    /\ ListedIds(station_list) = Stations
    /\ EachIdOnce(station_list)

====
